---- MODULE Spec2Model ----
(***************************************************************************)
(* The synctranslations management command of django-translations          *)
(* (translations/management/commands/synctranslations.py): one run of      *)
(* Command.execute / Command.handle against a content-type registry and a  *)
(* table of stored Translation rows.                                       *)
(***************************************************************************)
EXTENDS Integers, FiniteSets, Sequences, TLC

\* ------------------------------------------------------------------ bounds
\* Largest number of stored Translation rows at the start of a run.
MaxRows == 3

\* ------------------------------------------------------------ the universe
\* Applications returned by apps.get_app_configs().
InstalledApps == {"blog", "shop"}

\* The value of an omitted positional argument (Python None).
NoLabel == "<None>"

\* Values of options['app_label']: omitted, the empty string, the installed
\* labels and one label no application has.
AppLabelOptions == {NoLabel, "", "ghost"} \cup InstalledApps

\* Model classes that have a ContentType row.
Models == {"Article", "LegacyPage"}

\* Field names a Translation row can carry.
FieldNames == {"title", "subtitle"}

\* A ContentType with its model class: the application it belongs to, whether
\* the class is a subclass of Translatable and, if so, what
\* _get_translatable_fields_names() returns.
ContentTypeInfo ==
    { [app_label |-> a, translatable |-> t, fields |-> F] :
        a \in InstalledApps, t \in BOOLEAN, F \in SUBSET FieldNames }

Registries ==
    { reg \in [Models -> ContentTypeInfo] :
        \A m \in Models : ~reg[m].translatable => reg[m].fields = {} }

\* A stored Translation row: its content type and its field.
Rows == [content_type : Models, field : FieldNames]

\* self.stdin: a terminal, a stream whose isatty() is False, or an object
\* without an isatty attribute.
StdinKinds == {"tty", "notty", "noattr"}

\* Lines typed at the prompt, as sequences of characters.
Answers ==
    { <<>>, <<"y">>, <<"Y">>, <<"y", "e", "s">>, <<"Y", "E", "S">>,
      <<"Y", "e", "s">>, <<"n">>, <<"N">>, <<"n", "o">>, <<"N", "O">>,
      <<"x">>, <<"y", "e">> }

\* ---------------------------------------------------------------- messages
MsgHeader == "The translations for the following will be deleted:"
MsgChangeList == "<change_list>"
MsgSkipped == "Synchronizing translations skipped due to not running in a TTY."
MsgSuccess == "Successfully synchronized translations."
MsgCancelled == "Synchronizing translations cancelled."
MsgNothing == "No translations to synchronize."
MsgInterrupted == "Operation cancelled."
MsgAppNotFound(label) == <<"App '", label, "' is not found.">>

\* ------------------------------------------------------------------- state
VARIABLES
    registry,       \* ContentType table and the model classes behind it
    translations,   \* the stored Translation rows
    initial,        \* the stored rows when the run started
    app_label,      \* options['app_label']
    interactive,    \* options['interactive']
    verbosity,      \* options['verbosity']
    stdin,          \* self.stdin
    pc,             \* position of the run in execute/handle
    content_types,  \* handle's content_types
    query,          \* handle's query (a Q object)
    queryset,       \* the rows Translation.objects.filter(query) yields
    changes,        \* handle's changes dict, as the rendered change list
    run,            \* handle's run
    raw_value,      \* handle's raw_value
    input_event,    \* what the input() call delivered, "none" before it
    output,         \* what handle returned to execute
    raised,         \* the exception that ended the run, "None" if none
    error_message,  \* the message of the raised CommandError
    stdout,         \* messages written to self.stdout
    stderr,         \* messages written to self.stderr
    fetches,        \* number of reads of the Translation table
    prompts,        \* number of prompts shown
    reads,          \* number of reads of the input stream
    deletes,        \* number of bulk deletes issued
    exit_status     \* exit status of the process, -1 while running

vars == << registry, translations, initial, app_label, interactive, verbosity,
           stdin, pc, content_types, query, queryset, changes, run, raw_value,
           input_event, output, raised, error_message, stdout, stderr,
           fetches, prompts, reads, deletes, exit_status >>

\* What a run never changes: the registry, its options and its input stream.
options == << registry, initial, app_label, interactive, verbosity, stdin >>

\* -------------------------------------------------------- pure operators
\* str.lower() on one character.
LowerChar(c) ==
    CASE c = "Y" -> "y"
      [] c = "E" -> "e"
      [] c = "S" -> "s"
      [] c = "N" -> "n"
      [] c = "O" -> "o"
      [] OTHER -> c

\* str.lower().
Lower(s) == [i \in 1..Len(s) |-> LowerChar(s[i])]

\* The value the prompt loop returns for a typed line.
AnswerValue(text) ==
    LET lowered == Lower(text)
        raw == IF lowered = <<>> THEN <<"y">> ELSE lowered
    IN  IF raw \in { <<"y">>, <<"y", "e", "s">> } THEN "True"
        ELSE IF raw \in { <<"n">>, <<"n", "o">> } THEN "False"
        ELSE "None"

\* The raw_value the loop ends up with for a typed line.
RawValue(text) ==
    LET lowered == Lower(text)
    IN  IF lowered = <<>> THEN <<"y">> ELSE lowered

\* AppFound breaking out of the loop on the first app config, whatever its
\* label: every label passes.
AppFoundAnyLabel(label) == InstalledApps # {}

\* The for/else over apps.get_app_configs().
AppFound(label) == \E app_config \in InstalledApps : app_config = label

\* `if app_label:` -- None and the empty string are both falsy.
AppLabelGiven(label) == label # NoLabel /\ label # ""

\* ContentType.objects.filter(app_label=...) / ContentType.objects.all().
ContentTypes(reg, label) ==
    IF AppLabelGiven(label)
    THEN { m \in Models : reg[m].app_label = label }
    ELSE Models

\* ModelQuery without its else branch: a model that is not Translatable
\* contributes no row.
ModelQueryTranslatableOnly(reg, m) ==
    [content_type |-> m, exclude |-> TRUE,
     field_in |-> IF reg[m].translatable THEN reg[m].fields ELSE FieldNames]

\* The Q object built for one content type: Q(content_type) & ~Q(field__in)
\* for a Translatable model, Q(content_type) otherwise.
ModelQuery(reg, m) ==
    IF reg[m].translatable
    THEN [content_type |-> m, exclude |-> TRUE, field_in |-> reg[m].fields]
    ELSE [content_type |-> m, exclude |-> FALSE, field_in |-> {}]

\* query = Q(); for ...: query |= model_query.  A Q is the set of its
\* OR-ed children; Q() is the empty set.
BuildQuery(reg, cts) == { ModelQuery(reg, m) : m \in cts }

\* Whether one OR-ed child of a Q matches a row.
ChildMatches(child, row) ==
    /\ row.content_type = child.content_type
    /\ child.exclude => row.field \notin child.field_in

\* Translation.objects.filter(query): an empty Q adds no condition.
Filter(q, rows) ==
    IF q = {} THEN rows
    ELSE { row \in rows : \E child \in q : ChildMatches(child, row) }

\* HasRows testing `queryset is not None` instead of its truth value.
HasRowsNotNone(qs) == qs \subseteq Rows

\* `if queryset:`
HasRows(qs) == qs # {}

\* The changes dict rendered as change_list: one entry per model name.
ChangeList(qs) ==
    { [model |-> m,
       fields |-> { row.field : row \in { r \in qs : r.content_type = m } },
       plural |-> Cardinality({ row.field : row \in { r \in qs : r.content_type = m } }) > 1]
      : m \in { r.content_type : r \in qs } }

\* NotRunningInTTY with the negation lost: raised on a terminal instead.
NotRunningInTTYInverted(s) == s # "noattr" /\ s = "tty"

\* hasattr(self.stdin, 'isatty') and not self.stdin.isatty()
NotRunningInTTY(s) == s # "noattr" /\ s = "notty"

\* `if output:` in BaseCommand.execute.
Truthy(value) == value = "True"

\* ------------------------------------------------------------------- Init
Init ==
    /\ registry \in Registries
    /\ translations \in { S \in SUBSET Rows : Cardinality(S) <= MaxRows }
    /\ initial = translations
    /\ app_label \in AppLabelOptions
    /\ interactive \in BOOLEAN
    /\ verbosity \in {0, 1}
    /\ stdin \in StdinKinds
    /\ pc = "validate"
    /\ content_types = {}
    /\ query = {}
    /\ queryset = {}
    /\ changes = {}
    /\ run = "None"
    /\ raw_value = <<>>
    /\ input_event = "none"
    /\ output = "None"
    /\ raised = "None"
    /\ error_message = <<>>
    /\ stdout = <<>>
    /\ stderr = <<>>
    /\ fetches = 0
    /\ prompts = 0
    /\ reads = 0
    /\ deletes = 0
    /\ exit_status = -1

\* ---------------------------------------------------------------- actions
\* Lines 46-53: the label is given and no app config has it: CommandError.
AppNotFound ==
    /\ pc = "validate"
    /\ AppLabelGiven(app_label)
    /\ ~AppFound(app_label)
    /\ raised' = "CommandError"
    /\ error_message' = MsgAppNotFound(app_label)
    /\ exit_status' = 1
    /\ pc' = "failed"
    /\ UNCHANGED << options, translations, content_types, query, queryset,
                    changes, run, raw_value, input_event, output, stdout,
                    stderr, fetches, prompts, reads, deletes >>

\* Lines 46-56: the content types of the named application, or all of them.
GetContentTypes ==
    /\ pc = "validate"
    /\ AppLabelGiven(app_label) => AppFound(app_label)
    /\ content_types' = ContentTypes(registry, app_label)
    /\ pc' = "query"
    /\ UNCHANGED << options, translations, query, queryset, changes, run,
                    raw_value, input_event, output, raised, error_message,
                    stdout, stderr, fetches, prompts, reads, deletes,
                    exit_status >>

\* Lines 59-71: OR the per-model queries into one Q.
BuildTheQuery ==
    /\ pc = "query"
    /\ query' = BuildQuery(registry, content_types)
    /\ pc' = "filter"
    /\ UNCHANGED << options, translations, content_types, queryset, changes,
                    run, raw_value, input_event, output, raised,
                    error_message, stdout, stderr, fetches, prompts, reads,
                    deletes, exit_status >>

\* Lines 72-75: the queryset is evaluated by `if queryset:`.
FetchTranslations ==
    /\ pc = "filter"
    /\ queryset' = Filter(query, translations)
    /\ fetches' = fetches + 1
    /\ pc' = "check"
    /\ UNCHANGED << options, translations, content_types, query, changes, run,
                    raw_value, input_event, output, raised, error_message,
                    stdout, stderr, prompts, reads, deletes, exit_status >>

\* Lines 75, 135-136: nothing matched.
NothingToSynchronize ==
    /\ pc = "check"
    /\ ~HasRows(queryset)
    /\ stdout' = Append(stdout, MsgNothing)
    /\ output' = "None"
    /\ pc' = "return"
    /\ UNCHANGED << options, translations, content_types, query, queryset,
                    changes, run, raw_value, input_event, raised,
                    error_message, stderr, fetches, prompts, reads, deletes,
                    exit_status >>

\* Lines 75-93: tell the user what will be deleted, at verbosity >= 1.
ReportChanges ==
    /\ pc = "check"
    /\ HasRows(queryset)
    /\ IF verbosity >= 1
       THEN /\ changes' = ChangeList(queryset)
            /\ stdout' = stdout \o << MsgHeader, MsgChangeList >>
       ELSE UNCHANGED << changes, stdout >>
    /\ pc' = "confirm"
    /\ UNCHANGED << options, translations, content_types, query, queryset,
                    run, raw_value, input_event, output, raised,
                    error_message, stderr, fetches, prompts, reads, deletes,
                    exit_status >>

\* NoInput with the interactive flag ignored: the prompt is shown anyway.
NoInputStillPrompts ==
    /\ pc = "confirm"
    /\ ~interactive
    /\ run' = "None"
    /\ prompts' = prompts + 1
    /\ pc' = "prompt"
    /\ UNCHANGED << options, translations, content_types, query, queryset,
                    changes, raw_value, input_event, output, raised,
                    error_message, stdout, stderr, fetches, reads, deletes,
                    exit_status >>

\* Lines 95, 127-128: --noinput: run = True.
NoInput ==
    /\ pc = "confirm"
    /\ ~interactive
    /\ run' = "True"
    /\ pc' = "finish"
    /\ UNCHANGED << options, translations, content_types, query, queryset,
                    changes, raw_value, input_event, output, raised,
                    error_message, stdout, stderr, fetches, prompts, reads,
                    deletes, exit_status >>

\* Lines 95-99, 121-126: NotRunningInTTYException raised and caught; run
\* stays None.
SkipNotRunningInTTY ==
    /\ pc = "confirm"
    /\ interactive
    /\ NotRunningInTTY(stdin)
    /\ run' = "None"
    /\ stdout' = Append(stdout, MsgSkipped)
    /\ pc' = "finish"
    /\ UNCHANGED << options, translations, content_types, query, queryset,
                    changes, raw_value, input_event, output, raised,
                    error_message, stderr, fetches, prompts, reads, deletes,
                    exit_status >>

\* Lines 95-104: input() writes the prompt and blocks on the input stream.
ShowPrompt ==
    /\ pc = "confirm"
    /\ interactive
    /\ ~NotRunningInTTY(stdin)
    /\ run' = "None"
    /\ prompts' = prompts + 1
    /\ pc' = "prompt"
    /\ UNCHANGED << options, translations, content_types, query, queryset,
                    changes, raw_value, input_event, output, raised,
                    error_message, stdout, stderr, fetches, reads, deletes,
                    exit_status >>

\* Lines 102-117: a line is read; the loop body returns from handle with
\* True, False or None.
ReadAnswer ==
    /\ pc = "prompt"
    /\ \E text \in Answers :
         /\ raw_value' = RawValue(text)
         /\ output' = AnswerValue(text)
    /\ input_event' = "line"
    /\ reads' = reads + 1
    /\ pc' = "return"
    /\ UNCHANGED << options, translations, content_types, query, queryset,
                    changes, run, raised, error_message, stdout, stderr,
                    fetches, prompts, deletes, exit_status >>

\* Line 102: input() meets end of file; EOFError is not caught.
ReadEndOfFile ==
    /\ pc = "prompt"
    /\ input_event' = "eof"
    /\ reads' = reads + 1
    /\ raised' = "EOFError"
    /\ exit_status' = 1
    /\ pc' = "crashed"
    /\ UNCHANGED << options, translations, content_types, query, queryset,
                    changes, run, raw_value, output, error_message, stdout,
                    stderr, fetches, prompts, deletes >>

\* Lines 118-120: KeyboardInterrupt while blocked in input().
Interrupt ==
    /\ pc = "prompt"
    /\ input_event' = "interrupt"
    /\ stderr' = Append(stderr, MsgInterrupted)
    /\ raised' = "SystemExit"
    /\ exit_status' = 1
    /\ pc' = "exited"
    /\ UNCHANGED << options, translations, content_types, query, queryset,
                    changes, run, raw_value, output, error_message, stdout,
                    fetches, prompts, reads, deletes >>

\* Lines 130-132: queryset.delete() runs the filter again as one DELETE.
DeleteTranslations ==
    /\ pc = "finish"
    /\ run = "True"
    /\ translations' = translations \ Filter(query, translations)
    /\ deletes' = deletes + 1
    /\ stdout' = Append(stdout, MsgSuccess)
    /\ output' = "None"
    /\ pc' = "return"
    /\ UNCHANGED << options, content_types, query, queryset, changes, run,
                    raw_value, input_event, raised, error_message, stderr,
                    fetches, prompts, reads, exit_status >>

\* Lines 130, 133-134: run is falsy.
Cancel ==
    /\ pc = "finish"
    /\ run # "True"
    /\ stdout' = Append(stdout, MsgCancelled)
    /\ output' = "None"
    /\ pc' = "return"
    /\ UNCHANGED << options, translations, content_types, query, queryset,
                    changes, run, raw_value, input_event, raised,
                    error_message, stderr, fetches, prompts, reads, deletes,
                    exit_status >>

\* Lines 33-35: execute hands handle's result to BaseCommand.execute, which
\* writes a truthy result to stdout as text; True has no endswith, so the
\* write raises AttributeError.  A falsy result ends the command normally.
ExecuteReturn ==
    /\ pc = "return"
    /\ IF Truthy(output)
       THEN /\ raised' = "AttributeError"
            /\ exit_status' = 1
            /\ pc' = "crashed"
       ELSE /\ raised' = raised
            /\ exit_status' = 0
            /\ pc' = "done"
    /\ UNCHANGED << options, translations, content_types, query, queryset,
                    changes, run, raw_value, input_event, output,
                    error_message, stdout, stderr, fetches, prompts, reads,
                    deletes >>

Next ==
    \/ AppNotFound
    \/ GetContentTypes
    \/ BuildTheQuery
    \/ FetchTranslations
    \/ NothingToSynchronize
    \/ ReportChanges
    \/ NoInput
    \/ SkipNotRunningInTTY
    \/ ShowPrompt
    \/ ReadAnswer
    \/ ReadEndOfFile
    \/ Interrupt
    \/ DeleteTranslations
    \/ Cancel
    \/ ExecuteReturn

Spec == Init /\ [][Next]_vars

\* ------------------------------------------------------------ vocabulary
\* The queryset has been evaluated.
Fetched ==
    pc \in {"check", "confirm", "prompt", "finish", "return", "done",
            "crashed", "exited"}

\* handle has returned or the process has ended.
Ended == pc \in {"return", "done", "crashed", "exited", "failed"}

\* The process has ended.
Terminated == pc \in {"done", "crashed", "exited", "failed"}

Written(msg) == \E i \in 1..Len(stdout) : stdout[i] = msg

LastWritten(msg) == Len(stdout) > 0 /\ stdout[Len(stdout)] = msg

YesAnswers == { <<"y">>, <<"y", "e", "s">> }

\* A line was typed at the prompt and it was y, yes or empty.
AnsweredYes == input_event = "line" /\ raw_value \in YesAnswers

\* A line was typed at the prompt and it was anything else.
AnsweredNoOrOther == input_event = "line" /\ raw_value \notin YesAnswers

\* A row whose model is Translatable, declares a non-empty field set and
\* lists the row's field in it.
ValidRow(row) ==
    /\ registry[row.content_type].translatable
    /\ registry[row.content_type].fields # {}
    /\ row.field \in registry[row.content_type].fields

\* ----------------------------------------------------------------- claims
\* C1: in interactive mode on a terminal with a non-empty candidate set,
\* once the prompt was answered y, yes (any case) or with an empty line and
\* handle has returned, exactly one bulk delete of the candidate set was
\* issued and the success message was written.
C1_YesDeletesAndReportsSuccess ==
    (interactive /\ stdin = "tty" /\ Fetched /\ queryset # {}
        /\ AnsweredYes /\ Ended)
    => /\ deletes = 1
       /\ translations = initial \ queryset
       /\ Written(MsgSuccess)

\* C2: no row whose model declares a non-empty translatable-field set
\* containing the row's field is ever in the candidate set, and no such row
\* is ever deleted.
C2_ValidRowsNeverSelected ==
    /\ Fetched => \A row \in queryset : ~ValidRow(row)
    /\ \A row \in initial : ValidRow(row) => row \in translations

\* C3: when app_label names a registered application, every candidate row
\* belongs to a model of that application and every row of another
\* application stays stored.
C3_OtherApplicationsUntouched ==
    app_label \in InstalledApps
    => /\ Fetched =>
            \A row \in queryset :
                registry[row.content_type].app_label = app_label
       /\ \A row \in initial :
                registry[row.content_type].app_label # app_label
                => row \in translations

\* C4: in interactive mode on a terminal with a non-empty candidate set,
\* once the prompt was answered n, no or any unrecognised text and handle
\* has returned, no row was deleted and the cancelled message was written.
C4_NoOrOtherCancels ==
    (interactive /\ stdin = "tty" /\ Fetched /\ queryset # {}
        /\ AnsweredNoOrOther /\ Ended)
    => /\ deletes = 0
       /\ translations = initial
       /\ Written(MsgCancelled)

\* C5: with --noinput and a non-empty candidate set, whatever the input
\* stream is, no prompt is shown and the input is never read; the run goes
\* on to one bulk delete of the candidate set followed by the success
\* message, and ends normally.
C5_NoInputDeletesWithoutPrompt ==
    (~interactive /\ Fetched /\ queryset # {})
    => /\ prompts = 0
       /\ reads = 0
       /\ input_event = "none"
       /\ pc \in {"check", "confirm", "finish", "return", "done"}
       /\ pc \in {"check", "confirm", "finish"} =>
            (deletes = 0 /\ translations = initial)
       /\ pc = "finish" => run = "True"
       /\ pc \in {"return", "done"} =>
            /\ deletes = 1
            /\ translations = initial \ queryset
            /\ LastWritten(MsgSuccess)
            /\ ~Written(MsgCancelled)
       /\ pc = "done" => exit_status = 0

C5_Witness ==
    /\ ~interactive /\ stdin = "notty" /\ queryset # {}
    /\ pc = "done" /\ deletes = 1 /\ translations # initial

\* C6: when the candidate set is empty, whatever the interactive flag, the
\* input stream and the verbosity are, no prompt is shown, nothing is read,
\* no delete is issued, no report is printed, and the one message written
\* is 'No translations to synchronize.', after which the run ends normally.
C6_EmptyCandidateSetOnlyReportsNothing ==
    (Fetched /\ queryset = {})
    => /\ prompts = 0
       /\ reads = 0
       /\ deletes = 0
       /\ changes = {}
       /\ translations = initial
       /\ pc \in {"check", "return", "done"}
       /\ pc = "check" => stdout = <<>>
       /\ pc \in {"return", "done"} => stdout = << MsgNothing >>
       /\ pc = "done" => exit_status = 0

C6_Witness ==
    /\ pc = "done" /\ queryset = {} /\ initial # {}
    /\ interactive /\ stdin = "tty" /\ verbosity = 1
    /\ stdout = << MsgNothing >>

\* C7 as stated: whenever app_label is given (not omitted) and no registered
\* application has that label, the run fails with "App '<label>' is not
\* found." before the store is read or written.
C7_UnknownLabelFails ==
    (app_label # NoLabel /\ app_label \notin InstalledApps
        /\ pc # "validate")
    => /\ pc = "failed"
       /\ raised = "CommandError"
       /\ error_message = MsgAppNotFound(app_label)
       /\ fetches = 0 /\ deletes = 0
       /\ query = {} /\ queryset = {}
       /\ stdout = <<>> /\ prompts = 0
       /\ translations = initial

\* C7 amended: whenever app_label is a non-empty string and no registered
\* application has that label, the run fails with "App '<label>' is not
\* found." before the store is read or written: no query is built, nothing
\* is reported or prompted, and the stored rows are unchanged.
C7_UnknownNonEmptyLabelFails ==
    (app_label # NoLabel /\ app_label # "" /\ app_label \notin InstalledApps
        /\ pc # "validate")
    => /\ pc = "failed"
       /\ raised = "CommandError"
       /\ error_message = MsgAppNotFound(app_label)
       /\ fetches = 0 /\ deletes = 0
       /\ query = {} /\ queryset = {}
       /\ stdout = <<>> /\ prompts = 0
       /\ translations = initial

C7_Witness ==
    /\ app_label = "ghost" /\ pc = "failed" /\ initial # {}
    /\ error_message = << "App '", "ghost", "' is not found." >>

\* C8 as stated: in interactive mode with a non-empty candidate set and an
\* input stream whose isatty() is false, nothing is read, nothing is
\* deleted, the skipped message is written and the cancelled message is not,
\* and the run ends normally.
C8_NotTTYSkipsWithoutCancelled ==
    (interactive /\ stdin = "notty" /\ Fetched /\ queryset # {})
    => /\ reads = 0
       /\ deletes = 0
       /\ translations = initial
       /\ pc \in {"check", "confirm", "finish", "return", "done"}
       /\ pc \in {"finish", "return", "done"} => Written(MsgSkipped)
       /\ ~Written(MsgCancelled)
       /\ pc = "done" => exit_status = 0

\* C8 amended: in interactive mode with a non-empty candidate set and an
\* input stream whose isatty() is false, nothing is read, nothing is
\* deleted, the skipped message is written and the cancelled message is
\* written right after it, and the run ends normally.
C8_NotTTYSkipsThenCancelled ==
    (interactive /\ stdin = "notty" /\ Fetched /\ queryset # {})
    => /\ reads = 0
       /\ deletes = 0
       /\ translations = initial
       /\ pc \in {"check", "confirm", "finish", "return", "done"}
       /\ pc = "finish" => (LastWritten(MsgSkipped) /\ ~Written(MsgCancelled))
       /\ pc \in {"return", "done"} =>
            /\ Len(stdout) >= 2
            /\ stdout[Len(stdout) - 1] = MsgSkipped
            /\ stdout[Len(stdout)] = MsgCancelled
       /\ pc = "done" => exit_status = 0

C8_Witness ==
    /\ interactive /\ stdin = "notty" /\ queryset # {} /\ pc = "done"
    /\ Written(MsgSkipped) /\ translations = initial

\* C9: an interrupt at the prompt ends the process with status 1 after a
\* message on the error stream, with no row deleted and neither the success
\* nor the cancelled message on standard output; every run that ends
\* without an interrupt at the prompt and without the unknown-label error
\* ends with status 0.
C9_ExitStatus ==
    /\ input_event = "interrupt"
       => /\ pc = "exited"
          /\ stderr = << MsgInterrupted >>
          /\ exit_status = 1
          /\ deletes = 0
          /\ translations = initial
          /\ ~Written(MsgSuccess)
          /\ ~Written(MsgCancelled)
    /\ (Terminated /\ input_event # "interrupt" /\ raised # "CommandError")
       => exit_status = 0

\* C10: once the candidate set is computed, it holds every stored row of
\* every model in scope that is not Translatable, and every stored row of
\* every Translatable model in scope whose field is not among the model's
\* translatable fields (all of its rows when it declares none).
C10_StaleRowsSelected ==
    Fetched =>
        \A row \in initial :
            (/\ row.content_type \in content_types
             /\ \/ ~registry[row.content_type].translatable
                \/ row.field \notin registry[row.content_type].fields)
            => row \in queryset

C10_Witness ==
    /\ Fetched
    /\ registry["Article"].translatable
    /\ registry["Article"].fields = {"title"}
    /\ ~registry["LegacyPage"].translatable
    /\ initial = { [content_type |-> "Article", field |-> "title"],
                   [content_type |-> "Article", field |-> "subtitle"],
                   [content_type |-> "LegacyPage", field |-> "title"] }
    /\ queryset = { [content_type |-> "Article", field |-> "subtitle"],
                    [content_type |-> "LegacyPage", field |-> "title"] }

====
